---- MODULE Spec2Model ----
(***************************************************************************)
(* Model of winding/main.py, the driver of the time-aware RNN experiments: *)
(* loading of the per-file trajectories, the train/dev/test split, the     *)
(* model set-up, the epoch loop with its evaluations and early stopping,   *)
(* and the epoch trainer's windows.                                        *)
(*                                                                         *)
(* A sample is represented by its raw index in its file (0-based, as in    *)
(* the source), so a slice is the sequence of the raw indices it holds.    *)
(* A float is a record: Fin(v), NaN or PosInf.                             *)
(***************************************************************************)
EXTENDS Integers, Sequences, FiniteSets, TLC

\* ---------------------------------------------------------------- bounds
MaxFiles == 2
MaxLen == 14
SmallEpochs == 3
SmallEval == 2
LongEpochs == 2001
LongEval == 1000
MaxBptt == 2
MaxTrainLen == 3

VARIABLES
    pc,
    \* data loading and split
    sample_num_list, Ndev_num_list, Ntest_num_list, Ntrain_num_list,
    Xtrain, Ytrain, ttrain, dttrain,
    Xdev, Ydev, tdev, dtdev,
    Xtest, Ytest, ttest, dttest,
    \* set-up
    paras, cell_factory, model,
    \* epoch loop
    epoch, mse_train, mse_dev, error_dev,
    best_dev_error, best_dev_epoch, error_test,
    htrain_pred, hdev_pred,
    trainer_calls, forward_calls, dev_errors, test_errors, snapshots, log,
    \* epoch trainer
    bptt, pos, state, windows

sizeVars == <<sample_num_list, Ndev_num_list, Ntest_num_list, Ntrain_num_list>>
splitVars == <<Xtrain, Ytrain, ttrain, dttrain, Xdev, Ydev, tdev, dtdev,
               Xtest, Ytest, ttest, dttest>>
setupVars == <<paras, cell_factory, model>>
loopVars == <<epoch, mse_train, mse_dev, error_dev, best_dev_error,
              best_dev_epoch, error_test, htrain_pred, hdev_pred>>
histVars == <<trainer_calls, forward_calls, dev_errors, test_errors,
              snapshots, log>>
trainerVars == <<bptt, pos, state, windows>>
vars == <<pc, sizeVars, splitVars, setupVars, loopVars, histVars, trainerVars>>

\* ------------------------------------------------------------- helpers
Min(a, b) == IF a < b THEN a ELSE b
Max(a, b) == IF a > b THEN a ELSE b

\* range(n) as a sequence: the raw indices 0..n-1
Iota(n) == [k \in 1..n |-> k - 1]

\* a Python slice bound: negative counts from the end, both clipped to [0, len]
PyBound(k, len) == IF k < 0 THEN Max(len + k, 0) ELSE Min(k, len)

\* s[lo:hi] of Python / numpy (0-based, hi exclusive, empty when lo >= hi)
Slice(s, lo, hi) == SubSeq(s, PyBound(lo, Len(s)) + 1, PyBound(hi, Len(s)))

\* s[lo:]
SliceFrom(s, lo) == SubSeq(s, PyBound(lo, Len(s)) + 1, Len(s))

RECURSIVE SumSeq(_)
SumSeq(s) == IF s = <<>> THEN 0 ELSE Head(s) + SumSeq(Tail(s))

\* ------------------------------------------------- data loading and split
\* int(frac * n) with frac = 15 / 100
FracOf(n) == (15 * n) \div 100

\* the raw arrays of file i (1-based position in the file list)
X(i) == Iota(sample_num_list[i])
Y(i) == Iota(sample_num_list[i])
t(i) == Iota(sample_num_list[i])

\* N, and dt = sample_rate * ones((N, 1)): one array for all files
N == SumSeq(sample_num_list)
dt == Iota(N)

InitSplit ==
    /\ Xtrain = <<>> /\ Ytrain = <<>> /\ ttrain = <<>> /\ dttrain = <<>>
    /\ Xdev = <<>> /\ Ydev = <<>> /\ tdev = <<>> /\ dtdev = <<>>
    /\ Xtest = <<>> /\ Ytest = <<>> /\ ttest = <<>> /\ dttest = <<>>

InitSizes ==
    /\ sample_num_list = <<>>
    /\ Ndev_num_list = <<>> /\ Ntest_num_list = <<>> /\ Ntrain_num_list = <<>>

\* values of the variables a specification does not use
IdleSetup == paras = [none |-> TRUE] /\ cell_factory = "none" /\ model = [none |-> TRUE]
IdleLoop ==
    /\ epoch = 0 /\ mse_train = [kind |-> "none", val |-> 0]
    /\ mse_dev = [kind |-> "none", val |-> 0]
    /\ error_dev = [kind |-> "none", val |-> 0]
    /\ best_dev_error = [kind |-> "none", val |-> 0]
    /\ best_dev_epoch = 0
    /\ error_test = [kind |-> "none", val |-> 0]
    /\ htrain_pred = [split |-> "none", ep |-> 0]
    /\ hdev_pred = [split |-> "none", ep |-> 0]
IdleHist ==
    /\ trainer_calls = <<>> /\ forward_calls = <<>> /\ dev_errors = <<>>
    /\ test_errors = <<>> /\ snapshots = <<>> /\ log = <<>>
IdleTrainer == bptt = 0 /\ pos = <<>> /\ state = <<>> /\ windows = <<>>

InitData ==
    /\ pc = "load"
    /\ InitSizes /\ InitSplit
    /\ IdleSetup /\ IdleLoop /\ IdleHist /\ IdleTrainer

\* one iteration of the loop over files_list
LoadFile ==
    /\ pc = "load"
    /\ Len(sample_num_list) < MaxFiles
    /\ \E n \in 0..MaxLen : sample_num_list' = Append(sample_num_list, n)
    /\ UNCHANGED <<pc, Ndev_num_list, Ntest_num_list, Ntrain_num_list, splitVars,
                   setupVars, loopVars, histVars, trainerVars>>

\* the sizes of the splits of every file; X[0] of an empty list raises
ComputeSizes ==
    /\ pc = "load"
    /\ IF sample_num_list = <<>>
       THEN /\ pc' = "crashed"
            /\ UNCHANGED <<Ndev_num_list, Ntest_num_list, Ntrain_num_list>>
       ELSE /\ pc' = "split"
            /\ Ndev_num_list' = [i \in DOMAIN sample_num_list |-> FracOf(sample_num_list[i])]
            /\ Ntest_num_list' = [i \in DOMAIN sample_num_list |-> FracOf(sample_num_list[i])]
            /\ Ntrain_num_list' = [i \in DOMAIN sample_num_list |->
                   sample_num_list[i] - FracOf(sample_num_list[i]) - FracOf(sample_num_list[i])]
    /\ UNCHANGED <<sample_num_list, splitVars, setupVars, loopVars, histVars, trainerVars>>

\* one iteration of the split construction loop, for file i
SplitFile ==
    /\ pc = "split"
    /\ Len(Xtrain) < Len(Ndev_num_list)
    /\ LET i == Len(Xtrain) + 1
           Ndev == Ndev_num_list[i]
           Ntrain == Ntrain_num_list[i]
       IN  /\ Xtrain' = Append(Xtrain, Slice(X(i), 0, Ntrain))
           /\ Ytrain' = Append(Ytrain, Slice(Y(i), 1, Ntrain + 1))
           /\ ttrain' = Append(ttrain, Slice(t(i), 1, Ntrain + 1))
           /\ dttrain' = Append(dttrain, Slice(dt, 0, Ntrain))
           /\ Xdev' = Append(Xdev, Slice(X(i), Ntrain, Ntrain + Ndev))
           /\ Ydev' = Append(Ydev, Slice(Y(i), Ntrain + 1, Ntrain + Ndev + 1))
           /\ tdev' = Append(tdev, Slice(t(i), Ntrain + 1, Ntrain + Ndev + 1))
           /\ dtdev' = Append(dtdev, Slice(dt, Ntrain, Ntrain + Ndev))
           /\ Xtest' = Append(Xtest, Slice(X(i), Ntrain + Ndev, -1))
           /\ Ytest' = Append(Ytest, SliceFrom(Y(i), Ntrain + Ndev + 1))
           /\ ttest' = Append(ttest, SliceFrom(t(i), Ntrain + Ndev + 1))
           /\ dttest' = Append(dttest, Slice(dt, Ntrain + Ndev, -1))
    /\ UNCHANGED <<pc, sizeVars, setupVars, loopVars, histVars, trainerVars>>

NextData == LoadFile \/ ComputeSizes \/ SplitFile

SpecData == InitData /\ [][NextData]_vars

\* the files whose split has been built
Built == 1..Len(Xtest)

\* C1: for every file and each split, the input, output, timestamp and dt
\* slices have the same number of steps, and the output and the timestamp at
\* step j are those of the raw sample one after the input's at step j.
AlignedSplit(Xs, Ys, ts, dts) ==
    /\ Len(Ys) = Len(Xs) /\ Len(ts) = Len(Xs) /\ Len(dts) = Len(Xs)
    /\ \A j \in 1..Len(Xs) : Ys[j] = Xs[j] + 1 /\ ts[j] = Xs[j] + 1
C1_SplitsAligned ==
    \A i \in Built :
        /\ AlignedSplit(Xtrain[i], Ytrain[i], ttrain[i], dttrain[i])
        /\ AlignedSplit(Xdev[i], Ydev[i], tdev[i], dtdev[i])
        /\ AlignedSplit(Xtest[i], Ytest[i], ttest[i], dttest[i])

\* the indices a sequence of raw indices holds
Range(s) == {s[k] : k \in DOMAIN s}

\* C6: dev and test sizes are floor(0.15 n), train is the rest; the three
\* input slices are contiguous ranges in the order train, dev, test, pairwise
\* disjoint, and together hold every input index 0..n-2 exactly once.
C6_SplitCoversInputs ==
    \A i \in Built :
        LET n == sample_num_list[i]
            all == Xtrain[i] \o Xdev[i] \o Xtest[i]
        IN  /\ Ndev_num_list[i] = (15 * n) \div 100
            /\ Ntest_num_list[i] = (15 * n) \div 100
            /\ Ntrain_num_list[i] = n - Ndev_num_list[i] - Ntest_num_list[i]
            /\ all = Iota(Max(n - 1, 0))


\* ------------------------------------------------------------- floats
Fin(v) == [kind |-> "fin", val |-> v]
NaN == [kind |-> "nan", val |-> 0]
PosInf == [kind |-> "inf", val |-> 0]

\* a < b of Python floats: false whenever either side is nan
Lt(a, b) ==
    CASE a.kind = "nan" \/ b.kind = "nan" -> FALSE
      [] a.kind = "inf" -> FALSE
      [] b.kind = "inf" -> TRUE
      [] OTHER -> a.val < b.val

NonFinite(a) == a.kind \in {"nan", "inf"}

\* ------------------------------------------------------------- set-up
Models == {"GRU", "GRUinc", "ARNN", "ARNNinc"}
TimeAware == {"no", "input", "variable"}

\* the values the trainer and the evaluations can return
TrainLosses == {Fin(1), NaN, PosInf}
DevLosses == {Fin(1), NaN}
DevErrors == {Fin(5), Fin(10), Fin(100000), NaN, PosInf}
TestErrors == {Fin(7), NaN}

k_in == 10
k_out == 3
max_epochs_no_decrease == 1000

\* every model and time_aware choice with one epoch, the default model with
\* the short runs, and the default model with one long run
Run(m, ta, n, ev) == [model |-> m, time_aware |-> ta, epochs |-> n, eval_epochs |-> ev]
Configs ==
    {Run(m, ta, 1, 1) : m \in Models, ta \in TimeAware}
    \cup {Run("GRU", "variable", n, ev) : n \in 1..SmallEpochs, ev \in 0..SmallEval}
    \cup {Run("GRU", "variable", LongEpochs, LongEval)}

\* set model: the cell class of a model and time_aware choice
CellFactory(m, ta) ==
    CASE m = "GRU" -> IF ta = "no" THEN "GRUCell" ELSE "HOGRUCell"
      [] m = "GRUinc" -> "IncrHOGRUCell"
      [] m = "ARNN" -> "HOARNNCell"
      [] m = "ARNNinc" -> "IncrHOARNNCell"
      [] OTHER -> "NotImplementedError"

\* the number of input features the model is built with
ModelInputs(ta) == k_in

Init ==
    /\ pc = "setup"
    /\ paras \in Configs
    /\ cell_factory = "none" /\ model = [none |-> TRUE]
    /\ InitSizes /\ InitSplit /\ IdleLoop /\ IdleHist /\ IdleTrainer

\* cell selection and MIMO construction
SetModel ==
    /\ pc = "setup"
    /\ cell_factory' = CellFactory(paras.model, paras.time_aware)
    /\ IF cell_factory' = "NotImplementedError"
       THEN pc' = "crashed" /\ UNCHANGED model
       ELSE /\ pc' = "built"
            /\ model' = [k_in |-> ModelInputs(paras.time_aware), k_out |-> k_out,
                         cell_factory |-> cell_factory']
    /\ UNCHANGED <<paras, sizeVars, splitVars, loopVars, histVars, trainerVars>>

\* trainer construction and the initial values of the epoch loop
InitLoop ==
    /\ pc = "built"
    /\ pc' = "for"
    /\ best_dev_error' = Fin(100000)
    /\ best_dev_epoch' = 0
    /\ error_test' = Fin(-1)
    /\ UNCHANGED <<epoch, mse_train, mse_dev, error_dev, htrain_pred, hdev_pred>>
    /\ UNCHANGED <<setupVars, sizeVars, splitVars, histVars, trainerVars>>

\* ---------------------------------------------------------- epoch loop
\* range(1, paras.epochs + 1): the index after e, if there is one
HasNextEpoch(e) == e + 1 <= paras.epochs
NextEpoch_skip(e) == e + 2
NextEpoch(e) == e + 1

\* epoch % paras.eval_epochs == 0 (eval_epochs is not 0 here)
IsEvalEpoch(e) == e % paras.eval_epochs = 0

\* the hidden state a forward call without state0 starts from
ZeroState == [split |-> "zero", ep |-> 0]

\* the last hidden state of the rollout of a split at an evaluation
Forward(split, e) == [split |-> split, ep |-> e]

\* state0 of the dev and of the test rollout
DevState0_zero == ZeroState
DevState0 == htrain_pred
TestState0 == hdev_pred

\* error_dev < best_dev_error
Improved_le(err, best) == ~Lt(best, err)
Improved(err, best) == Lt(err, best)

\* epoch - best_dev_epoch > max_epochs_no_decrease
EarlyStop_ge(e, best_epoch) == e - best_epoch >= max_epochs_no_decrease
EarlyStop(e, best_epoch) == e - best_epoch > max_epochs_no_decrease

Call(split, s0) == [split |-> split, ep |-> epoch, state0 |-> s0]

\* one iteration of the for loop up to the test of the evaluation epoch:
\* the trainer call, which returns the epoch's loss or raises
TrainEpoch ==
    /\ pc = "for"
    /\ HasNextEpoch(epoch)
    /\ epoch' = NextEpoch(epoch)
    /\ trainer_calls' = Append(trainer_calls, epoch')
    /\ \/ /\ pc' = "except"
          /\ UNCHANGED mse_train
       \/ /\ mse_train' \in TrainLosses
          /\ pc' = IF paras.eval_epochs = 0 THEN "except"
                   ELSE IF IsEvalEpoch(epoch') THEN "eval_train" ELSE "for"
    /\ UNCHANGED <<mse_dev, error_dev, best_dev_error, best_dev_epoch, error_test,
                   htrain_pred, hdev_pred>>
    /\ UNCHANGED <<forward_calls, dev_errors, test_errors, snapshots, log>>
    /\ UNCHANGED <<setupVars, sizeVars, splitVars, trainerVars>>

\* the range of the for loop is exhausted
LoopEnd ==
    /\ pc = "for"
    /\ ~HasNextEpoch(epoch)
    /\ pc' = "report"
    /\ UNCHANGED <<setupVars, sizeVars, splitVars, loopVars, histVars, trainerVars>>

\* (1) forecast on train data
EvalTrain ==
    /\ pc = "eval_train"
    /\ forward_calls' = Append(forward_calls, Call("train", ZeroState))
    /\ \/ pc' = "except" /\ UNCHANGED htrain_pred
       \/ pc' = "eval_dev" /\ htrain_pred' = Forward("train", epoch)
    /\ UNCHANGED <<epoch, mse_train, mse_dev, error_dev, best_dev_error,
                   best_dev_epoch, error_test, hdev_pred>>
    /\ UNCHANGED <<trainer_calls, dev_errors, test_errors, snapshots, log>>
    /\ UNCHANGED <<setupVars, sizeVars, splitVars, trainerVars>>

\* (2) forecast on dev data, dev loss and dev error, and their report
EvalDev ==
    /\ pc = "eval_dev"
    /\ forward_calls' = Append(forward_calls, Call("dev", DevState0))
    /\ \/ /\ pc' = "except"
          /\ UNCHANGED <<hdev_pred, mse_dev, error_dev, dev_errors>>
       \/ /\ pc' = "update"
          /\ hdev_pred' = Forward("dev", epoch)
          /\ mse_dev' \in DevLosses
          /\ error_dev' \in DevErrors
          /\ dev_errors' = Append(dev_errors, [ep |-> epoch, err |-> error_dev'])
    /\ UNCHANGED <<epoch, mse_train, best_dev_error, best_dev_epoch, error_test,
                   htrain_pred>>
    /\ UNCHANGED <<trainer_calls, test_errors, snapshots, log>>
    /\ UNCHANGED <<setupVars, sizeVars, splitVars, trainerVars>>

\* update best dev model, or quit when the dev error has not decreased
UpdateBest ==
    /\ pc = "update"
    /\ IF Improved(error_dev, best_dev_error)
       THEN /\ best_dev_error' = error_dev
            /\ best_dev_epoch' = epoch
            /\ pc' = "eval_test"
            /\ UNCHANGED log
       ELSE IF EarlyStop(epoch, best_dev_epoch)
       THEN /\ log' = Append(log, "quitting")
            /\ pc' = "report"
            /\ UNCHANGED <<best_dev_error, best_dev_epoch>>
       ELSE /\ pc' = "for"
            /\ UNCHANGED <<best_dev_error, best_dev_epoch, log>>
    /\ UNCHANGED <<epoch, mse_train, mse_dev, error_dev, error_test, htrain_pred,
                   hdev_pred>>
    /\ UNCHANGED <<trainer_calls, forward_calls, dev_errors, test_errors, snapshots>>
    /\ UNCHANGED <<setupVars, sizeVars, splitVars, trainerVars>>

\* corresponding test result, and the snapshot of the best model
EvalTest ==
    /\ pc = "eval_test"
    /\ forward_calls' = Append(forward_calls, Call("test", TestState0))
    /\ \/ /\ pc' = "except"
          /\ UNCHANGED <<error_test, test_errors, snapshots>>
       \/ /\ pc' = "for"
          /\ error_test' \in TestErrors
          /\ test_errors' = Append(test_errors, [ep |-> epoch, err |-> error_test'])
          /\ snapshots' = Append(snapshots, epoch)
    /\ UNCHANGED <<epoch, mse_train, mse_dev, error_dev, best_dev_error,
                   best_dev_epoch, htrain_pred, hdev_pred>>
    /\ UNCHANGED <<trainer_calls, dev_errors, log>>
    /\ UNCHANGED <<setupVars, sizeVars, splitVars, trainerVars>>

\* the report after the loop
Report ==
    /\ pc = "report"
    /\ log' = Append(log, "Finished")
    /\ pc' = "done"
    /\ UNCHANGED <<trainer_calls, forward_calls, dev_errors, test_errors, snapshots>>
    /\ UNCHANGED <<setupVars, sizeVars, splitVars, loopVars, trainerVars>>

Except_report ==
    /\ pc = "except"
    /\ log' = Append(log, "traceback")
    /\ pc' = "report"
    /\ UNCHANGED <<trainer_calls, forward_calls, dev_errors, test_errors, snapshots>>
    /\ UNCHANGED <<setupVars, sizeVars, splitVars, loopVars, trainerVars>>

\* except: the traceback goes to the log
Except ==
    /\ pc = "except"
    /\ log' = Append(log, "traceback")
    /\ pc' = "done"
    /\ UNCHANGED <<trainer_calls, forward_calls, dev_errors, test_errors, snapshots>>
    /\ UNCHANGED <<setupVars, sizeVars, splitVars, loopVars, trainerVars>>

Next ==
    \/ SetModel \/ InitLoop \/ TrainEpoch \/ LoopEnd \/ EvalTrain \/ EvalDev
    \/ UpdateBest \/ EvalTest \/ Report \/ Except

Spec == Init /\ [][Next]_vars

\* the script runs to its end: every step that can be taken is taken
FairSpec == Spec /\ WF_vars(Next)


\* -------------------------------------------------------- epoch trainer
\* the training inputs of the trajectories the trainer is constructed with
Trajectories ==
    UNION {[1..f -> {Iota(n) : n \in 0..MaxTrainLen}] : f \in 1..MaxFiles}

InitTrainer ==
    /\ pc = "construct"
    /\ paras \in {[bptt |-> b] : b \in 1..MaxBptt}
    /\ cell_factory = "none" /\ model = [none |-> TRUE]
    /\ InitSizes
    /\ Xtrain \in Trajectories
    /\ Ytrain = <<>> /\ ttrain = <<>> /\ dttrain = <<>>
    /\ Xdev = <<>> /\ Ydev = <<>> /\ tdev = <<>> /\ dtdev = <<>>
    /\ Xtest = <<>> /\ Ytest = <<>> /\ ttest = <<>> /\ dttest = <<>>
    /\ IdleLoop /\ IdleHist /\ IdleTrainer

\* the hidden state of trajectory i after its samples before position p
Carried(i, p) == [traj |-> i, upto |-> p]

\* EpochTrainer(model, optimizer, epochs, Xtrain, Ytrain, dttrain, bptt = paras.bptt)
ConstructTrainer ==
    /\ pc = "construct"
    /\ pc' = "window"
    /\ bptt' = paras.bptt
    /\ pos' = [i \in DOMAIN Xtrain |-> 0]
    /\ state' = [i \in DOMAIN Xtrain |-> Carried(i, 0)]
    /\ windows' = <<>>
    /\ UNCHANGED <<sizeVars, splitVars, setupVars, loopVars, histVars>>

\* a trajectory of length len has a window left at position p
HasWindow_full(p, len) == p + bptt <= len
HasWindow(p, len) == p < len

\* the end of the window that starts at position p
WindowEnd(p, len) == Min(p + bptt, len)

\* the next window of trajectory i: rolled from the state carried over from
\* the trajectory's previous window
TrainWindow(i) ==
    /\ pc = "window"
    /\ HasWindow(pos[i], Len(Xtrain[i]))
    /\ LET hi == WindowEnd(pos[i], Len(Xtrain[i]))
       IN  /\ windows' = Append(windows, [traj |-> i,
                                          samples |-> Slice(Xtrain[i], pos[i], hi),
                                          state0 |-> state[i]])
           /\ state' = [state EXCEPT ![i] = Carried(i, hi)]
           /\ pos' = [pos EXCEPT ![i] = hi]
    /\ UNCHANGED <<pc, bptt, sizeVars, splitVars, setupVars, loopVars, histVars>>

\* no trajectory has a window left: the epoch's loss is returned
EpochDone ==
    /\ pc = "window"
    /\ \A i \in DOMAIN Xtrain : ~HasWindow(pos[i], Len(Xtrain[i]))
    /\ pc' = "epoch_done"
    /\ UNCHANGED <<sizeVars, splitVars, setupVars, loopVars, histVars, trainerVars>>

NextTrainer ==
    \/ ConstructTrainer
    \/ \E i \in DOMAIN Xtrain : TrainWindow(i)
    \/ EpochDone

SpecTrainer == InitTrainer /\ [][NextTrainer]_vars

\* ------------------------------------------------------------ properties
Failed == "traceback" \in Range(log)

\* the run is between two iterations of the loop, or past the loop, and no
\* exception has been raised
BetweenEpochs == pc \in {"for", "report"} \/ (pc = "done" /\ ~Failed)

\* C2: the train rollout starts without a state; the dev rollout starts from
\* the last hidden state of the train rollout of the same evaluation, which is
\* the call before it, and the test rollout from that of the dev rollout of
\* the same evaluation; no dev or test rollout starts from the zero state.
C2_StateThreading ==
    \A k \in DOMAIN forward_calls :
        LET c == forward_calls[k]
        IN  /\ c.split = "train" => c.state0 = ZeroState
            /\ c.split = "dev" =>
                   /\ c.state0 = [split |-> "train", ep |-> c.ep]
                   /\ k > 1 /\ forward_calls[k - 1].split = "train"
                   /\ forward_calls[k - 1].ep = c.ep
            /\ c.split = "test" =>
                   /\ c.state0 = [split |-> "dev", ep |-> c.ep]
                   /\ k > 1 /\ forward_calls[k - 1].split = "dev"
                   /\ forward_calls[k - 1].ep = c.ep
            /\ c.state0 = ZeroState => c.split = "train"

\* a test rollout of a second evaluation has been started
C2_Witness ==
    /\ Len(forward_calls) >= 5
    /\ forward_calls[Len(forward_calls)].split = "test"
    /\ forward_calls[1].ep < forward_calls[Len(forward_calls)].ep

\* C3: a model and time_aware choice that do not go together never reaches
\* the first training epoch. The incremental models are the baselines that do
\* without the time-aware integration ("for baseline only"), so they do not go
\* together with time_aware = variable.
Incompatible(m, ta) == m \in {"GRUinc", "ARNNinc"} /\ ta = "variable"
C3_IncompatibleRejected ==
    (pc # "setup" /\ Incompatible(paras.model, paras.time_aware)) =>
        (pc = "crashed" /\ trainer_calls = <<>>)

\* C4: a loop that ends before epoch N without an exception ended at an
\* evaluation epoch whose dev error did not improve on the best and that lies
\* more than max_epochs_no_decrease after the best epoch; and at an evaluation
\* where that holds the loop ends: no later epoch is trained.
C4_EndedEarly == pc \in {"report", "done"} /\ ~Failed /\ epoch < paras.epochs
C4_StopCondition ==
    /\ ~Lt(error_dev, best_dev_error)
    /\ epoch - best_dev_epoch > max_epochs_no_decrease
C4_EndedAtStop ==
    C4_EndedEarly =>
        /\ paras.eval_epochs # 0 /\ epoch % paras.eval_epochs = 0
        /\ dev_errors # <<>>
        /\ dev_errors[Len(dev_errors)] = [ep |-> epoch, err |-> error_dev]
        /\ C4_StopCondition
C4_StopLeaves == (pc = "update" /\ C4_StopCondition) => pc' = "report"
C4_NoLaterEpoch == pc \in {"report", "done"} => trainer_calls' = trainer_calls
C4_EarlyStop ==
    []C4_EndedAtStop /\ [][C4_StopLeaves]_vars /\ [][C4_NoLaterEpoch]_vars

\* the loop has been left by the early stop
C4_Witness == pc = "done" /\ ~Failed /\ epoch < paras.epochs /\ "quitting" \in Range(log)

\* C5: once the training loss, the dev loss or the dev error in hand is not
\* finite, no further epoch is trained.
C5_NoLaterEpoch ==
    (NonFinite(mse_train) \/ NonFinite(mse_dev) \/ NonFinite(error_dev))
        => trainer_calls' = trainer_calls
C5_NonFiniteStops == [][C5_NoLaterEpoch]_vars

\* C8: the trainer calls are 1, 2, 3, ... up to at most N; an evaluation's
\* forward call for epoch e comes after the trainer call for e and before the
\* next one, and only at a multiple of eval_epochs; and the run ends.
C8_Prefix ==
    /\ trainer_calls = [k \in 1..Len(trainer_calls) |-> k]
    /\ Len(trainer_calls) <= paras.epochs
C8_EvalAfterTrain ==
    forward_calls' # forward_calls =>
        LET c == forward_calls'[Len(forward_calls')]
        IN  /\ trainer_calls' = trainer_calls
            /\ c.ep = Len(trainer_calls)
            /\ paras.eval_epochs # 0
            /\ c.ep % paras.eval_epochs = 0
C8_EpochOrder == []C8_Prefix /\ [][C8_EvalAfterTrain]_vars /\ <>(pc = "done")

\* the last epoch of a run of several epochs has been trained and evaluated
C8_Witness ==
    /\ Len(trainer_calls) = paras.epochs /\ paras.epochs >= 3
    /\ forward_calls # <<>>
    /\ forward_calls[Len(forward_calls)].ep = paras.epochs

\* C9: with time_aware = input the model is built with one more input than
\* the raw feature count.
C9_InputAddsFeature ==
    (pc \notin {"setup", "crashed"} /\ paras.time_aware = "input") =>
        model.k_in = k_in + 1

\* C10: between evaluations best_dev_error is the least of 1.0e5 and the dev
\* errors so far, best_dev_epoch the earliest epoch that reached it (0 if
\* none was below 1.0e5), error_test the test error of that epoch (-1 if
\* none); the test rollouts and snapshots are those of the epochs whose dev
\* error was below 1.0e5 and below every earlier dev error; and
\* best_dev_error never increases.
C10_StrictlyBetter(k) ==
    /\ Lt(dev_errors[k].err, Fin(100000))
    /\ \A j \in 1..(k - 1) :
           dev_errors[j].err.kind = "nan" \/ Lt(dev_errors[k].err, dev_errors[j].err)
C10_Improving == {k \in DOMAIN dev_errors : C10_StrictlyBetter(k)}
C10_Best ==
    LET devs == {dev_errors[k].err : k \in DOMAIN dev_errors}
        first == CHOOSE k \in C10_Improving :
                     /\ dev_errors[k].err = best_dev_error
                     /\ \A j \in C10_Improving :
                            dev_errors[j].err = best_dev_error => k <= j
    IN  /\ best_dev_error \in devs \cup {Fin(100000)}
        /\ \A d \in devs : ~Lt(d, best_dev_error)
        /\ IF C10_Improving = {}
           THEN best_dev_epoch = 0 /\ error_test = Fin(-1)
           ELSE /\ \E k \in C10_Improving : dev_errors[k].err = best_dev_error
                /\ best_dev_epoch = dev_errors[first].ep
                /\ \E k \in DOMAIN test_errors :
                       test_errors[k] = [ep |-> best_dev_epoch, err |-> error_test]
        /\ {test_errors[k].ep : k \in DOMAIN test_errors}
               = {dev_errors[k].ep : k \in C10_Improving}
        /\ snapshots = [k \in DOMAIN test_errors |-> test_errors[k].ep]
C10_NeverIncreases ==
    pc \notin {"setup", "built"} => ~Lt(best_dev_error, best_dev_error')
C10_BestDev == [](BetweenEpochs => C10_Best) /\ [][C10_NeverIncreases]_vars

\* two improvements and then an evaluation that did not improve
C10_Witness ==
    /\ pc = "for" /\ Len(dev_errors) >= 3 /\ Len(test_errors) = 2
    /\ best_dev_epoch = dev_errors[2].ep


\* C7: the windows of a trajectory, in the order they are processed, are
\* consecutive pieces of its training samples of length bptt, the last one
\* possibly shorter; at the end of the epoch every sample is in exactly one
\* window; and every window starts from the state carried over from the
\* previous window of its own trajectory.
RECURSIVE Flatten(_)
Flatten(ws) == IF ws = <<>> THEN <<>> ELSE Head(ws).samples \o Flatten(Tail(ws))
WindowsOf(i) == SelectSeq(windows, LAMBDA w : w.traj = i)
C7_Windows ==
    pc \in {"window", "epoch_done"} =>
        \A i \in DOMAIN Xtrain :
            LET ws == WindowsOf(i)
            IN  /\ Flatten(ws) = SubSeq(Xtrain[i], 1, Len(Flatten(ws)))
                /\ \A k \in DOMAIN ws :
                       /\ ws[k].samples # <<>>
                       /\ Len(ws[k].samples) <= bptt
                       /\ k < Len(ws) => Len(ws[k].samples) = bptt
                       /\ ws[k].state0 = [traj |-> i, upto |-> ws[k].samples[1]]
                /\ pc = "epoch_done" => Flatten(ws) = Xtrain[i]

\* an epoch over two trajectories has ended, one of them with a short last
\* window after a full one, and their windows were interleaved
C7_Witness ==
    /\ pc = "epoch_done" /\ Len(Xtrain) = 2
    /\ Len(Xtrain[1]) > bptt /\ Len(Xtrain[1]) % bptt # 0
    /\ Len(windows) >= 3
    /\ windows[1].traj = 1 /\ windows[2].traj = 2 /\ windows[3].traj = 1


\* C11: a step of the epoch loop that raises is caught: the traceback is
\* written to the log, no further epoch is trained and no "Finished" report
\* is written; the "Finished" report is written, once, exactly when the loop
\* ends without an exception, at epoch N or by the early stop.
C11_Raised == pc = "except" \/ Failed
C11_Count(msg) == Cardinality({k \in DOMAIN log : log[k] = msg})
C11_Logs ==
    /\ C11_Count("traceback") <= 1 /\ C11_Count("Finished") <= 1
    /\ C11_Raised => "Finished" \notin Range(log)
    /\ "Finished" \in Range(log) =>
           /\ pc = "done"
           /\ Len(trainer_calls) = paras.epochs \/ "quitting" \in Range(log)
    /\ pc = "done" => (Failed \/ "Finished" \in Range(log))
C11_Caught == pc = "except" => (log' = Append(log, "traceback") /\ pc' = "done")
C11_NoLaterEpoch ==
    C11_Raised => (pc' # "report" /\ trainer_calls' = trainer_calls
                   /\ forward_calls' = forward_calls)
C11_Reported == pc = "report" => log' = Append(log, "Finished")
C11_CaughtAndReported ==
    /\ []C11_Logs
    /\ [][C11_Caught]_vars /\ [][C11_NoLaterEpoch]_vars /\ [][C11_Reported]_vars
    /\ (pc = "except") ~> Failed
    /\ (pc = "report") ~> ("Finished" \in Range(log))

\* an evaluation raised before the last epoch, and the traceback is in the log
C11_Witness ==
    /\ pc = "done" /\ log = <<"traceback">>
    /\ forward_calls # <<>> /\ Len(trainer_calls) < paras.epochs

====
